---- MODULE Spec2Model ----
(***************************************************************************)
(* Verification model of react-doc-gen: the component locator              *)
(* (extractor.js), the docstring generator (docstring-generator.js,        *)
(* openai-utils.js) and the file patcher (utils/file-updater.js).          *)
(*                                                                         *)
(* Text is a sequence of characters (one-character strings).  A few        *)
(* stretches of literal text that contain no delimiter, no newline and no  *)
(* declaration text are kept as one element (a component name, a piece of  *)
(* the fallback template): every String method below treats an element as  *)
(* one character.                                                          *)
(***************************************************************************)
EXTENDS Integers, Sequences, FiniteSets, TLC

VARIABLES
    \* ---- sanitizeDocString on its own
    sanIn, sanOut, sanPc,
    \* ---- one run of the tool (bin/react-doc-gen.js main), and a second run
    opts,            \* options: isDryRun, skipExisting, updateExisting, client
    disk,            \* the text of each source file, as stored
    orig,            \* the text of each source file before the first run
    comps,           \* componentsByFile: per file, the located components
    docStrings,      \* componentDocStrings: uniqueId -> result
    oracleCalls,     \* uniqueIds for which chat.completions.create was called
    cache,           \* .react-doc-gen: path of a cache file -> its text
    run,             \* 1: first run, 2: the run repeated on the patched files
    pc,              \* "generate", "files", "loop", "done"
    gi,              \* generateDocStrings: next component of allComponents
    fi,              \* updateFilesWithDocStrings: the file being updated
    content,         \* updateFileWithDocStrings: content
    originalContent, \* updateFileWithDocStrings: originalContent
    sorted,          \* updateFileWithDocStrings: sortedComponents
    si,              \* the next element of sortedComponents
    cnt,             \* success, failed, skipped, modified of the file
    fileResults,     \* what updateFileWithDocStrings returned, per file
    results,         \* updateFilesWithDocStrings: results
    first,           \* what the first run left: disk, fileResults
    \* ---- generateDocStrings: batches and the clock
    rOpts,           \* options: batchSize, rateLimit, client
    rTotal,          \* totalComponents
    rCached,         \* the components whose docstring is in the cache
    rI,              \* the loop variable i
    rPc,             \* "loop", "batch", "sleep", "done"
    rNow,            \* the clock, in milliseconds
    rPending,        \* the components of the batch that have not settled
    rStart,          \* component -> the time its generation started
    rEnd,            \* component -> the time its generation settled
    rIssued,         \* the components for which the model was asked
    rSleeps,         \* the delays taken: [after, from, to]
    \* ---- the result map keyed by uniqueId
    idDecls,         \* the declarations of the project: [path, name, start]
    idFound,         \* the components the locator returned for them
    idMap,           \* uniqueId -> the declaration whose docstring is stored
    idN,             \* the next component whose result is stored
    \* ---- extractComponentsFromFile over a syntax tree
    lAst,            \* the program: a sequence of statements
    lText,           \* fileContent
    lNodes,          \* the nodes of the tree the visitors look at, in traversal order
    lK,              \* the next node to visit
    lComponents,     \* the array components, in push order
    lReturned,       \* the array the function returned
    lPc,             \* "traverse", "returned"
    \* ---- the cache directory under saves and loads
    cFiles,          \* path of a cache file -> its text
    cSaved,          \* hash -> how its last save ended, and the docstring saved
    cLoad,           \* the last loadDocFromCache: hash, value, read error
    \* ---- processBatch: the concurrent generations of one batch
    bIn,             \* batch, options, and the cache directory when the batch began
    bProc,           \* per component of the batch: where its callback is, its result
    bStore,          \* path of a cache file -> its text
    bLog,            \* the calls of the model and the cache files written, in order
    bOut             \* the results object processBatch returned

sanVars == <<sanIn, sanOut, sanPc>>
rateVars == <<rOpts, rTotal, rCached, rI, rPc, rNow, rPending, rStart, rEnd, rIssued,
              rSleeps>>
pipeVars == <<opts, disk, orig, comps, docStrings, oracleCalls, cache, run, pc,
              gi, fi, content, originalContent, sorted, si, cnt, fileResults,
              results, first>>
idVars == <<idDecls, idFound, idMap, idN>>
locVars == <<lAst, lText, lNodes, lK, lComponents, lReturned, lPc>>
cacheVars == <<cFiles, cSaved, cLoad>>
batchVars == <<bIn, bProc, bStore, bLog, bOut>>
vars == <<sanVars, pipeVars, rateVars, idVars, locVars, cacheVars, batchVars>>

(***************************************************************************)
(* JavaScript String methods, on sequences.  Indices are 0-based as in JS. *)
(***************************************************************************)
Min(S) == CHOOSE x \in S : \A y \in S : x <= y
Max(S) == CHOOSE x \in S : \A y \in S : x >= y

\* s.substring(a, b) for 0 <= a, b
Substring(s, a, b) ==
    LET lo == IF a < b THEN a ELSE b
        hi == IF a < b THEN b ELSE a
        h  == IF hi > Len(s) THEN Len(s) ELSE hi
    IN  IF lo >= h THEN <<>> ELSE SubSeq(s, lo + 1, h)

\* s.substring(a)
SubstringFrom(s, a) == Substring(s, a, Len(s))

\* pat occurs in s at index i
OccursAt(s, pat, i) ==
    /\ i >= 0
    /\ i + Len(pat) <= Len(s)
    /\ \A k \in 1..Len(pat) : s[i + k] = pat[k]

\* s.indexOf(pat)
IndexOf(s, pat) ==
    LET hits == {i \in 0..(Len(s) - Len(pat)) : OccursAt(s, pat, i)}
    IN  IF hits = {} THEN -1 ELSE Min(hits)

\* s.lastIndexOf(pat, from): the last occurrence starting at or before from
LastIndexOfFrom(s, pat, from) ==
    LET hits == {i \in 0..(Len(s) - Len(pat)) : i <= from /\ OccursAt(s, pat, i)}
    IN  IF hits = {} THEN -1 ELSE Max(hits)

\* s.lastIndexOf(pat)
LastIndexOf(s, pat) == LastIndexOfFrom(s, pat, Len(s))

StartsWith(s, pat) == OccursAt(s, pat, 0)
EndsWith(s, pat) == OccursAt(s, pat, Len(s) - Len(pat))

IsSpace(c) == c \in {" ", "\n"}

\* the number of white-space characters String.trim() removes in front
LeadingSpace(s) ==
    LET stops == {i \in 1..Len(s) : ~IsSpace(s[i])}
    IN  IF stops = {} THEN Len(s) ELSE Min(stops) - 1

\* s.trim()
Trim(s) ==
    LET keep == {i \in 1..Len(s) : ~IsSpace(s[i])}
    IN  IF keep = {} THEN <<>> ELSE SubSeq(s, Min(keep), Max(keep))

\* s.split('\n')[0]
FirstLine(s) ==
    LET nl == IndexOf(s, <<"\n">>)
    IN  IF nl = -1 THEN s ELSE Substring(s, 0, nl)

\* s.replace(/pat/g, ""): every match, found left to right after the previous
\* match, is removed; the result is not scanned again.
RECURSIVE RemoveAll(_, _)
RemoveAll(s, pat) ==
    LET i == IndexOf(s, pat)
    IN  IF i = -1 THEN s
        ELSE Substring(s, 0, i) \o RemoveAll(SubstringFrom(s, i + Len(pat)), pat)

OpenMarker == <<"/", "*", "*">>
PlainOpen == <<"/", "*">>
CloseMarker == <<"*", "/">>
StarsClose == <<"*", "*", "/">>

(***************************************************************************)
(* docstring-generator.js: sanitizeDocString                               *)
(***************************************************************************)
\* the second replace reads docString again, so the first one is lost
SanitizeStripped(docString) ==
    LET s1 == RemoveAll(docString, OpenMarker)
        s2 == RemoveAll(docString, PlainOpen)
        s3 == RemoveAll(s2, StarsClose)
    IN  RemoveAll(s3, CloseMarker)

WrapOpen(s) ==
    IF StartsWith(s, OpenMarker) THEN s
    ELSE OpenMarker
         \o (IF StartsWith(s, <<"*">>) THEN <<>> ELSE <<"\n", " ", "*">>)
         \o <<" ">> \o s

WrapClose(s) ==
    IF EndsWith(s, CloseMarker) THEN s ELSE s \o <<"\n", " ", "*", "/">>

sanitizeDocString(docString) == WrapClose(WrapOpen(SanitizeStripped(docString)))

SanIdle ==
    /\ sanIn = <<>>
    /\ sanOut = <<>>
    /\ sanPc = "idle"

(***************************************************************************)
(* extractor.js: the locator.  The parser (@babel/parser) is outside the   *)
(* repository; source files are written in a small language that keeps     *)
(* what the locator and the patcher read:                                  *)
(*   /* ... */   a block comment (a documentation block when it opens with *)
(*               the open marker),                                         *)
(*   e           the export keyword, in front of a declaration,            *)
(*   F ... f     the declaration of component Foo: its first line is F,    *)
(*               its last line is f,                                       *)
(*   B           the declaration of a component Bar, on one line (two of   *)
(*               them in one file have byte-identical first lines),        *)
(*   space and newline.                                                    *)
(***************************************************************************)
Null == <<>>

\* getLineAndColumn(text, position)
getLineAndColumn(text, position) ==
    IF position = 0 THEN [line |-> 1, column |-> 1]
    ELSE LET head == Substring(text, 0, position)
             nls  == {i \in 1..Len(head) : head[i] = "\n"}
         IN  [line   |-> Cardinality(nls) + 1,
              column |-> (IF nls = {} THEN Len(head) ELSE Len(head) - Max(nls)) + 1]

\* findPrecedingComment(text, componentStart); found = FALSE is null
findPrecedingComment(text, componentStart) ==
    LET preComponent      == Substring(text, 0, componentStart)
        commentEndIndex   == LastIndexOf(preComponent, CloseMarker)
        commentStartIndex == LastIndexOfFrom(preComponent, OpenMarker, commentEndIndex)
        betweenText       == Trim(SubstringFrom(preComponent, commentEndIndex + 2))
    IN  IF commentEndIndex = -1 THEN [found |-> FALSE, comment |-> Null, start |-> -1, end |-> -1]
        ELSE IF commentStartIndex = -1 THEN [found |-> FALSE, comment |-> Null, start |-> -1, end |-> -1]
        ELSE IF betweenText # <<>> THEN [found |-> FALSE, comment |-> Null, start |-> -1, end |-> -1]
        ELSE [found   |-> TRUE,
              comment |-> Substring(preComponent, commentStartIndex, commentEndIndex + 2),
              start   |-> commentStartIndex,
              end     |-> commentEndIndex + 2]

Digits == <<"0", "1", "2", "3", "4", "5", "6", "7", "8", "9">>

\* `${n}` for a number n >= 0
RECURSIVE NumStr(_)
NumStr(n) == IF n < 10 THEN <<Digits[n + 1]>> ELSE NumStr(n \div 10) \o <<Digits[(n % 10) + 1]>>

Lower == {"a", "b", "c", "d", "e", "f", "g", "h", "i", "j", "k", "l", "m",
          "n", "o", "p", "q", "r", "s", "t", "u", "v", "w", "x", "y", "z"}
Upper == {"A", "B", "C", "D", "E", "F", "G", "H", "I", "J", "K", "L", "M",
          "N", "O", "P", "Q", "R", "S", "T", "U", "V", "W", "X", "Y", "Z"}
\* [a-zA-Z0-9]; a component name kept as one element is made of such characters
Alnum == Lower \cup Upper \cup {Digits[i] : i \in 1..10} \cup {"Foo", "Bar", "Baz", "Qux"}

\* relativePath.replace(/[^a-zA-Z0-9]/g, '_')
SanitizePath(relativePath) ==
    [i \in 1..Len(relativePath) |->
        IF relativePath[i] \in Alnum THEN relativePath[i] ELSE "_"]

\* `${name}_${sanitized path}_${location.line}_${location.column}`
UniqueId(name, relativePath, location) ==
    name \o <<"_">> \o SanitizePath(relativePath) \o <<"_">>
         \o NumStr(location.line) \o <<"_">> \o NumStr(location.column)

\* addComponent(name, startNode, endNode, type): the record it pushes
addComponent(fileContent, relativePath, name, startPos, endPos, type) ==
    LET location        == getLineAndColumn(fileContent, startPos)
        existingComment == findPrecedingComment(fileContent, startPos)
    IN  [name            |-> name,
         uniqueId        |-> UniqueId(name, relativePath, location),
         file            |-> relativePath,
         code            |-> Substring(fileContent, startPos, endPos),
         location        |-> location,
         startPos        |-> startPos,
         endPos          |-> endPos,
         existingComment |-> existingComment.comment,
         type            |-> type]

\* a stable sort of a sequence of components by startPos, ascending or descending
\* the array left in push order
Unsorted(cs, descending) == cs

RECURSIVE SortByStart(_, _)
SortByStart(cs, descending) ==
    IF cs = <<>> THEN <<>>
    ELSE LET starts == {cs[i].startPos : i \in 1..Len(cs)}
             best   == IF descending THEN Max(starts) ELSE Min(starts)
             k      == Min({i \in 1..Len(cs) : cs[i].startPos = best})
         IN  <<cs[k]>> \o SortByStart(SubSeq(cs, 1, k - 1) \o SubSeq(cs, k + 1, Len(cs)),
                                      descending)

\* the parser: the index just after the comment opened at i, or -1 (unterminated)
CommentEnd(text, i) ==
    LET hits == {j \in (i + 2)..(Len(text) - 2) : OccursAt(text, CloseMarker, j)}
    IN  IF hits = {} THEN -1 ELSE Min(hits) + 2

\* the parser: the index just after the last line f of the declaration opened at i
DeclEnd(text, i) ==
    LET hits == {j \in (i + 1)..Len(text) : text[j] = "f"}
    IN  IF hits = {} THEN -1 ELSE Min(hits)

ErrorNode == [name |-> <<>>, start |-> -1, end |-> -1, type |-> "error"]

\* the declaration nodes of the syntax tree, in traversal order from index i;
\* an ErrorNode stands for the parser throwing
RECURSIVE Declarations(_, _)
Declarations(text, i) ==
    IF i >= Len(text) THEN <<>>
    ELSE IF OccursAt(text, PlainOpen, i)
         THEN IF CommentEnd(text, i) = -1 THEN <<ErrorNode>>
              ELSE Declarations(text, CommentEnd(text, i))
    ELSE IF text[i + 1] = "F"
         THEN IF DeclEnd(text, i + 1) = -1 THEN <<ErrorNode>>
              ELSE <<[name |-> <<"Foo">>, start |-> i, end |-> DeclEnd(text, i + 1),
                      type |-> "FunctionComponent"]>> \o Declarations(text, i + 1)
    ELSE IF text[i + 1] = "B"
         THEN <<[name |-> <<"Bar">>, start |-> i, end |-> i + 1,
                 type |-> "ArrowFunctionComponent"]>> \o Declarations(text, i + 1)
    ELSE IF text[i + 1] = "P"
         THEN <<[name |-> <<"Baz">>, start |-> i, end |-> i + 1,
                 type |-> "ArrowFunctionComponent"],
                [name |-> <<"Qux">>, start |-> i, end |-> i + 1,
                 type |-> "ArrowFunctionComponent"]>> \o Declarations(text, i + 1)
    ELSE Declarations(text, i + 1)

\* babylon.parse throws: a comment or a declaration is not closed, or a name is
\* declared twice
ParseFails(text) ==
    LET ds == Declarations(text, 0)
    IN  \/ \E k \in 1..Len(ds) : ds[k].type = "error"
        \/ \E j, k \in 1..Len(ds) : j # k /\ ds[j].name = ds[k].name

\* extractComponentsFromFile(filePath, fileContent, relativePath)
extractComponentsFromFile(fileContent, relativePath) ==
    IF ParseFails(fileContent) THEN <<>>
    ELSE LET ds == Declarations(fileContent, 0)
         IN  SortByStart([k \in 1..Len(ds) |->
                            addComponent(fileContent, relativePath, ds[k].name,
                                         ds[k].start, ds[k].end, ds[k].type)],
                         FALSE)

(***************************************************************************)
(* openai-utils.js and docstring-generator.js: one component of a batch    *)
(***************************************************************************)
\* generateBasicDocString(componentName, filePath, location, componentType)
generateBasicDocString(componentName, filePath, location, componentType) ==
    <<"/", "*", "*", "\n", " ", "*", " ">> \o componentName
    \o <<" Component", "\n", " ", "*", "\n", " ", "*", " ",
         "@description A React component defined in ">> \o filePath
    \o <<" (line ">> \o NumStr(location.line)
    \o <<", column ">> \o NumStr(location.column)
    \o <<")", "\n", " ", "*", " ", "@component ", componentType,
         "\n", " ", "*", " ", "@param {Object} props - Component props",
         "\n", " ", "*", " ", "@returns {React.ReactElement} A React component",
         "\n", " ", "*", "/">>

\* generateDocStringWithOpenAI, after the response: trim, wrap if needed
WrapResponse(responseDocstring) == WrapClose(WrapOpen(Trim(responseDocstring)))

\* calculateComponentHash(componentCode): the digest is taken as injective, the
\* text stands for its digest
calculateComponentHash(componentCode) == componentCode

\* one path for every hash
SharedCacheFilePath(hash) == <<".react-doc-gen", "/", ".json">>

\* getCacheFilePath(hash): path.join(CACHE_DIR, `${hash}.json`)
getCacheFilePath(hash) == <<".react-doc-gen", "/">> \o hash \o <<".json">>

\* the characters of a JSON string literal for one character of the string
JsonEscapeChar(c) ==
    CASE c = "\""  -> <<"\\", "\"">>
      [] c = "\\"  -> <<"\\", "\\">>
      [] c = "\n"  -> <<"\\", "n">>
      [] OTHER     -> <<c>>

RECURSIVE JsonEscape(_)
JsonEscape(text) ==
    IF text = <<>> THEN <<>> ELSE JsonEscapeChar(Head(text)) \o JsonEscape(Tail(text))

JsonHead == <<"{", "\n", " ", " ", "\"docstring\"", ":", " ", "\"">>
JsonMiddle == <<"\"", ",", "\n", " ", " ", "\"timestamp\"", ":", " ", "\"">>
JsonTail == <<"\"", "\n", "}">>

\* JSON.stringify({docstring, timestamp}, null, 2)
JsonStringify(docstring, timestamp) ==
    JsonHead \o JsonEscape(docstring) \o JsonMiddle \o <<timestamp>> \o JsonTail

\* the string literal that starts at index i of the file text: its value and the
\* index of its closing quote, or ok = FALSE when the text ends inside it
RECURSIVE JsonStringAt(_, _, _)
JsonStringAt(text, i, value) ==
    IF i >= Len(text) THEN [ok |-> FALSE, value |-> <<>>, end |-> -1]
    ELSE IF text[i + 1] = "\"" THEN [ok |-> TRUE, value |-> value, end |-> i]
    ELSE IF text[i + 1] = "\\"
         THEN IF i + 1 >= Len(text) THEN [ok |-> FALSE, value |-> <<>>, end |-> -1]
              ELSE JsonStringAt(text, i + 2,
                                Append(value, IF text[i + 2] = "n" THEN "\n" ELSE text[i + 2]))
    ELSE JsonStringAt(text, i + 1, Append(value, text[i + 1]))

\* JSON.parse(content).docstring; ok = FALSE when JSON.parse throws
JsonParse(text) ==
    LET docstring == JsonStringAt(text, Len(JsonHead), <<>>)
    IN  IF ~StartsWith(text, JsonHead) THEN [ok |-> FALSE, docstring |-> <<>>]
        ELSE IF ~docstring.ok THEN [ok |-> FALSE, docstring |-> <<>>]
        ELSE IF ~(/\ OccursAt(text, JsonMiddle, docstring.end)
                  /\ OccursAt(text, JsonTail, docstring.end + Len(JsonMiddle) + 1)
                  /\ Len(text) = docstring.end + Len(JsonMiddle) + 1 + Len(JsonTail))
        THEN [ok |-> FALSE, docstring |-> <<>>]
        ELSE [ok |-> TRUE, docstring |-> docstring.value]

\* loadDocFromCache(hash): Null when there is no file or it cannot be parsed
loadDocFromCache(store, hash) ==
    IF getCacheFilePath(hash) \in DOMAIN store /\ JsonParse(store[getCacheFilePath(hash)]).ok
    THEN JsonParse(store[getCacheFilePath(hash)]).docstring
    ELSE Null

\* saveDocToCache(hash, docstring): the cache directory after writeFile
saveDocToCache(store, hash, docstring, timestamp) ==
    (getCacheFilePath(hash) :> JsonStringify(docstring, timestamp)) @@ store

\* new Date().toISOString(), in the runs of the whole tool
RunTimestamp == "T1"

\* what the model may answer for a component: a documentation block, or a
\* block that quotes the first line of the declaration in an example
OracleAnswers(component, tag) ==
    {<<"/", "*", "*", tag, "*", "/">>,
     <<"/", "*", "*", "\n">> \o FirstLine(component.code) \o <<"\n", "*", "/">>}

\* processBatch, line 21: the component is skipped
SkipsExisting(options, component) ==
    options.skipExisting /\ component.existingComment # Null

\* processBatch, line 29: the model is asked
UsesOpenAI(options, component) == options.client /\ component.code # <<>>

\* processBatch, lines 64-69: the entry stored for a result
ResultEntry(docstring, skipped) ==
    [docstring |-> docstring, skipped |-> skipped, error |-> Null]

\* allComponents: the components of all files, in file order
RECURSIVE Flatten(_)
Flatten(byFile) ==
    IF byFile = <<>> THEN <<>> ELSE Head(byFile) \o Flatten(Tail(byFile))

(***************************************************************************)
(* utils/file-updater.js: the patcher                                      *)
(***************************************************************************)
\* getComponentSignature(component)
getComponentSignature(component) == Trim(FirstLine(component.code))

\* the start of the line that holds index i (lastIndexOf('\n') + 1, or 0)
LineStart(text, i) ==
    LET lastNewline == LastIndexOf(Substring(text, 0, i), <<"\n">>)
    IN  IF lastNewline = -1 THEN 0 ELSE lastNewline + 1

\* findComponentPosition(content, component); found = FALSE is null
findComponentPosition(text, component) ==
    LET componentSignature == getComponentSignature(component)
        signatureIndex     == IndexOf(text, componentSignature)
    IN  IF signatureIndex = -1
        THEN [found |-> FALSE, start |-> -1, signatureStart |-> -1, signatureEnd |-> -1]
        ELSE [found          |-> TRUE,
              start          |-> LineStart(text, signatureIndex),
              signatureStart |-> signatureIndex,
              signatureEnd   |-> signatureIndex + Len(componentSignature)]

\* findExistingDocString(content, position); found = FALSE is null.  docStart
\* and docEnd are indices into the trimmed text before the position.
findExistingDocString(text, position) ==
    LET before   == Trim(Substring(text, 0, position))
        docEnd   == LastIndexOf(before, CloseMarker)
        docStart == LastIndexOfFrom(before, OpenMarker, docEnd)
    IN  IF ~EndsWith(before, CloseMarker) THEN [found |-> FALSE, start |-> -1, end |-> -1]
        ELSE IF docStart = -1 THEN [found |-> FALSE, start |-> -1, end |-> -1]
        ELSE [found |-> TRUE, start |-> docStart, end |-> docEnd + 2]

\* docStrings[component.uniqueId], and the test of line 96
HasDocString(strings, component) ==
    /\ component.uniqueId \in DOMAIN strings
    /\ strings[component.uniqueId].docstring # Null
    /\ ~strings[component.uniqueId].skipped

\* a run that never takes the preview branch
DryRunOff(options) == FALSE

\* line 73: the run is a preview
IsDryRun(options) == options.isDryRun

\* lines 121-123: the existing block is replaced
ReplaceDoc(text, existingDoc, docstring) ==
    Substring(text, 0, existingDoc.start) \o docstring \o SubstringFrom(text, existingDoc.end)

\* lines 134-141: the docstring and a newline go in at the start of the line
InsertDoc(text, position, docstring) ==
    LET insertPos == LineStart(text, position)
    IN  Substring(text, 0, insertPos) \o docstring \o <<"\n">> \o SubstringFrom(text, insertPos)

ZeroCounts == [success |-> 0, failed |-> 0, skipped |-> 0, modified |-> FALSE]

\* the loop body without the test of options.updateExisting: an existing block
\* is always replaced
PatchAlwaysReplacing(text, counts, component, strings, options) ==
    IF ~HasDocString(strings, component)
    THEN [content |-> text, cnt |-> [counts EXCEPT !.skipped = @ + 1]]
    ELSE LET docstring       == strings[component.uniqueId].docstring
             currentPosition == findComponentPosition(text, component)
             existingDoc     == findExistingDocString(text, currentPosition.start)
         IN  IF ~currentPosition.found
             THEN [content |-> text, cnt |-> [counts EXCEPT !.failed = @ + 1]]
             ELSE IF existingDoc.found
             THEN [content |-> ReplaceDoc(text, existingDoc, docstring),
                   cnt |-> [counts EXCEPT !.success = @ + 1, !.modified = TRUE]]
             ELSE [content |-> InsertDoc(text, currentPosition.start, docstring),
                   cnt |-> [counts EXCEPT !.success = @ + 1, !.modified = TRUE]]

\* one iteration of the loop of lines 92-151: the buffer and the counts after it
PatchComponent(text, counts, component, strings, options) ==
    IF ~HasDocString(strings, component)
    THEN [content |-> text, cnt |-> [counts EXCEPT !.skipped = @ + 1]]
    ELSE LET docstring       == strings[component.uniqueId].docstring
             currentPosition == findComponentPosition(text, component)
             existingDoc     == findExistingDocString(text, currentPosition.start)
         IN  IF ~currentPosition.found
             THEN [content |-> text, cnt |-> [counts EXCEPT !.failed = @ + 1]]
             ELSE IF existingDoc.found
             THEN IF options.updateExisting
                  THEN [content |-> ReplaceDoc(text, existingDoc, docstring),
                        cnt |-> [counts EXCEPT !.success = @ + 1, !.modified = TRUE]]
                  ELSE [content |-> text, cnt |-> [counts EXCEPT !.skipped = @ + 1]]
             ELSE [content |-> InsertDoc(text, currentPosition.start, docstring),
                   cnt |-> [counts EXCEPT !.success = @ + 1, !.modified = TRUE]]

\* lines 28-33: the components whose result is marked skipped
SkippedComponents(components, strings) ==
    Cardinality({k \in 1..Len(components) :
                    /\ components[k].uniqueId \in DOMAIN strings
                    /\ strings[components[k].uniqueId].skipped})

ZeroResults ==
    [success |-> 0, skipped |-> 0, failed |-> 0, filesProcessed |-> 0, filesModified |-> 0]

\* line 33: results.skipped += skippedComponents
AddSkipped(summary, components, strings) ==
    [summary EXCEPT !.skipped = @ + SkippedComponents(components, strings)]

\* lines 39-45: results after updateFileWithDocStrings returned
AddFileResult(summary, fileResult) ==
    [summary EXCEPT !.success = @ + fileResult.success,
                    !.failed = @ + fileResult.failed,
                    !.filesProcessed = @ + 1,
                    !.filesModified = @ + (IF fileResult.modified THEN 1 ELSE 0)]

\* the value updateFileWithDocStrings returns; io marks a read or write error
DryRunResult(components) ==
    [success |-> Len(components), failed |-> 0, skipped |-> 0, modified |-> FALSE,
     io |-> FALSE, dry |-> TRUE]
IoErrorResult(components) ==
    [success |-> 0, failed |-> Len(components), skipped |-> 0, modified |-> FALSE,
     io |-> TRUE, dry |-> FALSE]
\* a return that reports no modification
LoopResultUnmodified(counts) ==
    [success |-> counts.success, failed |-> counts.failed, skipped |-> counts.skipped,
     modified |-> FALSE, io |-> FALSE, dry |-> FALSE]
LoopResult(counts) ==
    [success |-> counts.success, failed |-> counts.failed, skipped |-> counts.skipped,
     modified |-> counts.modified, io |-> FALSE, dry |-> FALSE]

(***************************************************************************)
(* docstring-generator.js: generateDocStrings, its batches and delays      *)
(***************************************************************************)
Minute == 60000
DerivedBatchCap == 5

\* line 91: options.batchSize || Math.min(5, Math.floor(options.rateLimit / 2))
BatchSize(options) ==
    IF options.batchSize # 0 THEN options.batchSize
    ELSE Min({DerivedBatchCap, options.rateLimit \div 2})

\* line 109: (60000 / options.rateLimit) * batchSize; the quotient is whole for
\* every rateLimit the model draws
DelayMs(options) == (Minute \div options.rateLimit) * BatchSize(options)

\* line 97: allComponents.slice(i, i + batchSize), components counted from 1
Batch(i, options, total) == {c \in 1..total : i < c /\ c <= i + BatchSize(options)}

\* a delay after every batch, the last one too
DelayAfterEveryBatch(i, options, total) == options.client

\* line 108: a delay follows the batch
DelayFollows(i, options, total) == i + BatchSize(options) < total /\ options.client

NoTimes == [c \in {} |-> 0]

RateIdle ==
    /\ rOpts = [batchSize |-> 0, rateLimit |-> 1, client |-> FALSE]
    /\ rTotal = 0
    /\ rCached = {}
    /\ rI = 0
    /\ rPc = "idle"
    /\ rNow = 0
    /\ rPending = {}
    /\ rStart = NoTimes
    /\ rEnd = NoTimes
    /\ rIssued = {}
    /\ rSleeps = <<>>

(***************************************************************************)
(* extractor.js: the syntax tree and the visitors of extractComponentsFromFile *)
(***************************************************************************)
\* statements of the tree, as the parser builds them
FunctionDeclaration(name, body) ==
    [kind |-> "FunctionDeclaration", name |-> name, superClass |-> "", declarations |-> <<>>,
     body |-> body]
ClassDeclaration(name, superClass) ==
    [kind |-> "ClassDeclaration", name |-> name, superClass |-> superClass,
     declarations |-> <<>>, body |-> <<>>]
VariableDeclaration(declarations) ==
    [kind |-> "VariableDeclaration", name |-> <<>>, superClass |-> "",
     declarations |-> declarations, body |-> <<>>]
VariableDeclarator(name, init, body) == [name |-> name, init |-> init, body |-> body]

\* the source text of an initialiser, without the body of an arrow function
InitHead(init) ==
    CASE init = "arrow"      -> <<"(", ")", "=>", "{">>
      [] init = "styled"     -> <<"styled", "(", ")">>
      [] init = "React.memo" -> <<"React", ".", "memo", "(", ")">>
      [] init = "make"       -> <<"make", "(", ")">>
      [] OTHER               -> <<"1">>

SuperText(superClass) ==
    CASE superClass = "Component"       -> <<" ", "extends", " ", "Component">>
      [] superClass = "React.Component" -> <<" ", "extends", " ", "React", ".", "Component">>
      [] superClass = "Other"           -> <<" ", "extends", " ", "Other">>
      [] OTHER                          -> <<>>

\* the source text the tree was parsed from: one statement a line
RECURSIVE SourceOfStatements(_), SourceOfDeclarators(_)
SourceOfStatement(s) ==
    CASE s.kind = "FunctionDeclaration" ->
            <<"function", " ">> \o s.name \o <<"(", ")", "{">>
                \o SourceOfStatements(s.body) \o <<"}">>
      [] s.kind = "ClassDeclaration" ->
            <<"class", " ">> \o s.name \o SuperText(s.superClass) \o <<"{", "}">>
      [] OTHER ->
            <<"const", " ">> \o SourceOfDeclarators(s.declarations) \o <<";">>
SourceOfDeclarator(d) ==
    d.name \o <<"=">> \o InitHead(d.init)
           \o (IF d.init = "arrow" THEN SourceOfStatements(d.body) \o <<"}">> ELSE <<>>)
SourceOfStatements(stmts) ==
    IF stmts = <<>> THEN <<>>
    ELSE SourceOfStatement(Head(stmts)) \o <<"\n">> \o SourceOfStatements(Tail(stmts))
SourceOfDeclarators(ds) ==
    IF ds = <<>> THEN <<>>
    ELSE SourceOfDeclarator(Head(ds))
            \o (IF Tail(ds) = <<>> THEN <<>> ELSE <<",">> \o SourceOfDeclarators(Tail(ds)))

\* a node the visitors are called with: its own span and, for a declarator, the
\* span of the VariableDeclaration that path.findParent finds
AstNode(type, name, start, end, init, superClass, declStart, declEnd) ==
    [type |-> type, name |-> name, start |-> start, end |-> end, init |-> init,
     superClass |-> superClass, declStart |-> declStart, declEnd |-> declEnd]

\* the nodes in the order traverse enters them, the text starting at offset
RECURSIVE NodesOfStatements(_, _), NodesOfDeclarators(_, _, _, _)
NodesOfStatement(s, offset) ==
    LET end == offset + Len(SourceOfStatement(s))
    IN  CASE s.kind = "FunctionDeclaration" ->
                <<AstNode("FunctionDeclaration", s.name, offset, end, "", "", -1, -1)>>
                    \o NodesOfStatements(s.body, offset + 2 + Len(s.name) + 3)
          [] s.kind = "ClassDeclaration" ->
                <<AstNode("ClassDeclaration", s.name, offset, end, "", s.superClass, -1, -1)>>
          [] OTHER -> NodesOfDeclarators(s.declarations, offset + 2, offset, end)
NodesOfStatements(stmts, offset) ==
    IF stmts = <<>> THEN <<>>
    ELSE NodesOfStatement(Head(stmts), offset)
            \o NodesOfStatements(Tail(stmts), offset + Len(SourceOfStatement(Head(stmts))) + 1)
NodesOfDeclarators(ds, offset, declStart, declEnd) ==
    IF ds = <<>> THEN <<>>
    ELSE LET d   == Head(ds)
             end == offset + Len(SourceOfDeclarator(d))
         IN  <<AstNode("VariableDeclarator", d.name, offset, end, d.init, "",
                       declStart, declEnd)>>
                \o (IF d.init = "arrow"
                    THEN NodesOfStatements(d.body, offset + Len(d.name) + 1 + 4)
                    ELSE <<>>)
                \o NodesOfDeclarators(Tail(ds), end + 1, declStart, declEnd)

\* the names a sequence of statements declares in its own scope
DeclaredNames(stmts) ==
    [k \in 1..Len(stmts) |->
        IF stmts[k].kind = "VariableDeclaration"
        THEN [j \in 1..Len(stmts[k].declarations) |-> stmts[k].declarations[j].name]
        ELSE <<stmts[k].name>>]

\* babylon.parse throws: a name is declared twice in the scope of the program
ParseThrows(program) ==
    LET names == DeclaredNames(program)
    IN  \E k1, k2 \in 1..Len(names) : \E j1 \in 1..Len(names[k1]), j2 \in 1..Len(names[k2]) :
            /\ <<k1, j1>> # <<k2, j2>>
            /\ names[k1][j1] = names[k2][j2]

\* /^[A-Z]/.test(name)
StartsUpper(name) == name # <<>> /\ name[1] \in Upper

\* lines 204-225 of the VariableDeclarator visitor: the type, or "" when the
\* initialiser is not one of a component
DeclaratorType(init) ==
    CASE init = "arrow"      -> "ArrowFunctionComponent"
      [] init = "styled"     -> "StyledComponent"
      [] init = "React.memo" -> "HOCComponent"
      [] OTHER               -> ""

\* lines 241-246 of the ClassDeclaration visitor
ExtendsComponent(superClass) == superClass \in {"Component", "React.Component"}

RelativePath == <<"a", ".", "j", "s">>

IdIdle ==
    /\ idDecls = <<>>
    /\ idFound = <<>>
    /\ idMap = NoTimes
    /\ idN = 0

LocIdle ==
    /\ lAst = <<>>
    /\ lText = <<>>
    /\ lNodes = <<>>
    /\ lK = 0
    /\ lComponents = <<>>
    /\ lReturned = <<>>
    /\ lPc = "idle"

CacheIdle ==
    /\ cFiles = NoTimes
    /\ cSaved = NoTimes
    /\ cLoad = [hash |-> <<>>, value |-> <<>>, state |-> "idle"]

BatchIdle ==
    /\ bIn = [batch |-> <<>>, options |-> [skipExisting |-> FALSE, client |-> FALSE],
              store |-> NoTimes]
    /\ bProc = <<>>
    /\ bStore = NoTimes
    /\ bLog = [calls |-> <<>>, writes |-> <<>>, failed |-> {}]
    /\ bOut = [state |-> "idle", results |-> NoTimes]

(***************************************************************************)
(* Spec: one run of the tool on a project, then the run repeated on the    *)
(* patched files with the same docstring for each component.               *)
(***************************************************************************)
MaxSegs == 3

SegmentText(seg) ==
    CASE seg = "DOC"    -> <<"/", "*", "*", "a", "*", "/", "\n">>
      [] seg = "PLAIN"  -> <<"/", "*", "c", "*", "/", "\n">>
      [] seg = "EXPORT" -> <<"e", " ">>
      [] seg = "NL"     -> <<"\n">>
      [] seg = "FOO"    -> <<"F", "\n", "f">>
      [] seg = "BAR"    -> <<"B">>
      [] seg = "QUOTE"  -> <<"/", "*", "B", "*", "/", "\n">>
      [] seg = "PAIR"   -> <<"P">>

Segments == {"DOC", "PLAIN", "EXPORT", "NL", "FOO", "BAR"}

RECURSIVE LayoutText(_)
LayoutText(layout) ==
    IF layout = <<>> THEN <<>> ELSE SegmentText(Head(layout)) \o LayoutText(Tail(layout))

HasComponent(layout) == \E k \in 1..Len(layout) : layout[k] \in {"FOO", "BAR"}

\* source files with at least one component (scanDirectory keeps only those)
Layouts == {l \in UNION {[1..n -> Segments] : n \in 1..MaxSegs} : HasComponent(l)}
SmallLayouts == {<<"FOO">>, <<"BAR">>, <<"DOC", "FOO">>}

\* a comment that holds the first line of Bar; a statement P of two component
\* declarators, Baz and Qux, which have the span of the statement
MoreLayouts == {<<"QUOTE", "BAR">>, <<"PAIR">>, <<"DOC", "PAIR">>}

\* a project of one file, or of two small files
Projects ==
    {<<LayoutText(l)>> : l \in Layouts \cup MoreLayouts}
    \cup {<<LayoutText(l[1]), LayoutText(l[2])>> : l \in SmallLayouts \X SmallLayouts}

RelPath(f) == IF f = 1 THEN <<"a", ".", "j", "s">> ELSE <<"b", ".", "j", "s">>

Options ==
    [isDryRun : BOOLEAN, skipExisting : BOOLEAN, updateExisting : BOOLEAN, client : BOOLEAN]

NoEntries == [x \in {} |-> Null]

\* extractComponentsFromProject: componentsByFile
Locate(texts) == [f \in 1..Len(texts) |-> extractComponentsFromFile(texts[f], RelPath(f))]

PipeIdle ==
    /\ opts = [isDryRun |-> FALSE, skipExisting |-> FALSE, updateExisting |-> FALSE,
               client |-> FALSE]
    /\ disk = <<>>
    /\ orig = <<>>
    /\ comps = <<>>
    /\ docStrings = NoEntries
    /\ oracleCalls = {}
    /\ cache = NoEntries
    /\ run = 0
    /\ pc = "idle"
    /\ gi = 1
    /\ fi = 1
    /\ content = <<>>
    /\ originalContent = <<>>
    /\ sorted = <<>>
    /\ si = 1
    /\ cnt = ZeroCounts
    /\ fileResults = <<>>
    /\ results = ZeroResults
    /\ first = [disk |-> <<>>, fileResults |-> <<>>]

Init ==
    /\ SanIdle
    /\ RateIdle
    /\ IdIdle
    /\ LocIdle
    /\ CacheIdle
    /\ BatchIdle
    /\ opts \in Options
    /\ disk \in Projects
    /\ orig = disk
    /\ comps = Locate(disk)
    /\ docStrings = NoEntries
    /\ oracleCalls = {}
    /\ cache = NoEntries
    /\ run = 1
    /\ pc = "generate"
    /\ gi = 1
    /\ fi = 1
    /\ content = <<>>
    /\ originalContent = <<>>
    /\ sorted = <<>>
    /\ si = 1
    /\ cnt = ZeroCounts
    /\ fileResults = <<>>
    /\ results = ZeroResults
    /\ first = [disk |-> <<>>, fileResults |-> <<>>]

AllComponents == Flatten(comps)

\* processBatch, lines 51-53 and 63-70: the sanitized docstring is stored
StoreDocString(component, docString) ==
    /\ docStrings' = (component.uniqueId :> ResultEntry(sanitizeDocString(docString), FALSE))
                     @@ docStrings
    /\ gi' = gi + 1
    /\ pc' = IF gi + 1 > Len(AllComponents) THEN "files" ELSE "generate"
    /\ UNCHANGED <<sanVars, rateVars, idVars, locVars, cacheVars, batchVars, opts, disk, orig, comps, run, fi, content, originalContent,
                   sorted, si, cnt, fileResults, results, first>>

Generating == pc = "generate" /\ gi <= Len(AllComponents)

\* processBatch, lines 21-24
GenerateSkipped ==
    /\ Generating
    /\ LET component == AllComponents[gi]
       IN  /\ SkipsExisting(opts, component)
           /\ docStrings' = (component.uniqueId :> ResultEntry(Null, TRUE)) @@ docStrings
    /\ gi' = gi + 1
    /\ pc' = IF gi + 1 > Len(AllComponents) THEN "files" ELSE "generate"
    /\ UNCHANGED <<sanVars, rateVars, idVars, locVars, cacheVars, batchVars, opts, disk, orig, comps, oracleCalls, cache, run, fi, content,
                   originalContent, sorted, si, cnt, fileResults, results, first>>

\* generateDocStringWithOpenAI, lines 141-145: the cached docstring is used
GenerateCached ==
    /\ Generating
    /\ LET component == AllComponents[gi]
       IN  /\ ~SkipsExisting(opts, component)
           /\ UsesOpenAI(opts, component)
           /\ loadDocFromCache(cache, calculateComponentHash(component.code)) # Null
           /\ StoreDocString(component, loadDocFromCache(cache, calculateComponentHash(component.code)))
    /\ UNCHANGED <<oracleCalls, cache>>

\* generateDocStringWithOpenAI, lines 147-200: the model answers
GenerateOpenAI ==
    /\ Generating
    /\ LET component == AllComponents[gi]
       IN  /\ ~SkipsExisting(opts, component)
           /\ UsesOpenAI(opts, component)
           /\ loadDocFromCache(cache, calculateComponentHash(component.code)) = Null
           /\ \E answer \in OracleAnswers(component, Digits[gi + 1]) :
                 /\ cache' = saveDocToCache(cache, calculateComponentHash(component.code),
                                                  WrapResponse(answer), RunTimestamp)
                 /\ StoreDocString(component, WrapResponse(answer))
           /\ oracleCalls' = oracleCalls \cup {component.uniqueId}

\* lines 202-205 and processBatch, lines 41-45: the call fails, the fallback is used
GenerateOpenAIFails ==
    /\ Generating
    /\ LET component == AllComponents[gi]
       IN  /\ ~SkipsExisting(opts, component)
           /\ UsesOpenAI(opts, component)
           /\ loadDocFromCache(cache, calculateComponentHash(component.code)) = Null
           /\ oracleCalls' = oracleCalls \cup {component.uniqueId}
           /\ StoreDocString(component,
                             generateBasicDocString(component.name, component.file,
                                                    component.location, component.type))
    /\ UNCHANGED cache

\* processBatch, lines 46-49: no client
GenerateBasic ==
    /\ Generating
    /\ LET component == AllComponents[gi]
       IN  /\ ~SkipsExisting(opts, component)
           /\ ~UsesOpenAI(opts, component)
           /\ StoreDocString(component,
                             generateBasicDocString(component.name, component.file,
                                                    component.location, component.type))
    /\ UNCHANGED <<oracleCalls, cache>>

Updating == pc = "files" /\ fi <= Len(disk)

\* the file is done: the next file, or the summary
FileReturns(fileResult) ==
    /\ fileResults' = Append(fileResults, fileResult)
    /\ results' = AddFileResult(AddSkipped(results, comps[fi], docStrings), fileResult)
    /\ fi' = fi + 1
    /\ pc' = IF fi + 1 > Len(disk) THEN "done" ELSE "files"

\* updateFileWithDocStrings, lines 73-76
DryRunFile ==
    /\ Updating
    /\ IsDryRun(opts)
    /\ FileReturns(DryRunResult(comps[fi]))
    /\ UNCHANGED <<sanVars, rateVars, idVars, locVars, cacheVars, batchVars, opts, disk, orig, comps, docStrings, oracleCalls, cache, run,
                   gi, content, originalContent, sorted, si, cnt, first>>

\* lines 80 and 160-163: readFile rejects
ReadFails ==
    /\ Updating
    /\ ~IsDryRun(opts)
    /\ FileReturns(IoErrorResult(comps[fi]))
    /\ UNCHANGED <<sanVars, rateVars, idVars, locVars, cacheVars, batchVars, opts, disk, orig, comps, docStrings, oracleCalls, cache, run,
                   gi, content, originalContent, sorted, si, cnt, first>>

\* lines 33 and 80-90: the file is read and its components sorted
BeginFile ==
    /\ Updating
    /\ ~IsDryRun(opts)
    /\ content' = disk[fi]
    /\ originalContent' = disk[fi]
    /\ sorted' = SortByStart(comps[fi], TRUE)
    /\ si' = 1
    /\ cnt' = ZeroCounts
    /\ pc' = "loop"
    /\ UNCHANGED <<sanVars, rateVars, idVars, locVars, cacheVars, batchVars, opts, disk, orig, comps, docStrings, oracleCalls, cache, run,
                   gi, fi, fileResults, results, first>>

\* lines 92-151: one component
HandleComponent ==
    /\ pc = "loop"
    /\ si <= Len(sorted)
    /\ LET after == PatchComponent(content, cnt, sorted[si], docStrings, opts)
       IN  /\ content' = after.content
           /\ cnt' = after.cnt
    /\ si' = si + 1
    /\ UNCHANGED <<sanVars, rateVars, idVars, locVars, cacheVars, batchVars, opts, disk, orig, comps, docStrings, oracleCalls, cache, run,
                   pc, gi, fi, originalContent, sorted, fileResults, results, first>>

\* lines 154-159: the file is written when modified
FinishFile ==
    /\ pc = "loop"
    /\ si > Len(sorted)
    /\ disk' = IF cnt.modified THEN [disk EXCEPT ![fi] = content] ELSE disk
    /\ FileReturns(LoopResult(cnt))
    /\ UNCHANGED <<sanVars, rateVars, idVars, locVars, cacheVars, batchVars, opts, orig, comps, docStrings, oracleCalls, cache, run, gi,
                   content, originalContent, sorted, si, cnt, first>>

\* lines 155 and 160-163: writeFile rejects
WriteFails ==
    /\ pc = "loop"
    /\ si > Len(sorted)
    /\ cnt.modified
    /\ FileReturns(IoErrorResult(comps[fi]))
    /\ UNCHANGED <<sanVars, rateVars, idVars, locVars, cacheVars, batchVars, opts, disk, orig, comps, docStrings, oracleCalls, cache, run,
                   gi, content, originalContent, sorted, si, cnt, first>>

\* the docstring each component of the first run got, given to the component
\* located at the same place in the second run
RECURSIVE SameDocStrings(_, _)
SameDocStrings(located, entries) ==
    IF located = <<>> \/ entries = <<>> THEN NoEntries
    ELSE SameDocStrings(Tail(located), Tail(entries))
         @@ (Head(located).uniqueId :> Head(entries))

\* main, a second time: the components are located again in the patched files
RunAgain ==
    /\ pc = "done"
    /\ run = 1
    /\ ~opts.isDryRun
    /\ ~opts.updateExisting
    /\ first' = [disk |-> disk, fileResults |-> fileResults]
    /\ comps' = Locate(disk)
    /\ docStrings' = SameDocStrings(Flatten(Locate(disk)),
                                    [k \in 1..Len(AllComponents) |->
                                        docStrings[AllComponents[k].uniqueId]])
    /\ run' = 2
    /\ pc' = "files"
    /\ fi' = 1
    /\ fileResults' = <<>>
    /\ results' = ZeroResults
    /\ UNCHANGED <<sanVars, rateVars, idVars, locVars, cacheVars, batchVars, opts, disk, orig, oracleCalls, cache, gi, content,
                   originalContent, sorted, si, cnt>>

Next ==
    \/ GenerateSkipped
    \/ GenerateCached
    \/ GenerateOpenAI
    \/ GenerateOpenAIFails
    \/ GenerateBasic
    \/ DryRunFile
    \/ ReadFails
    \/ BeginFile
    \/ HandleComponent
    \/ FinishFile
    \/ WriteFails
    \/ RunAgain

Spec == Init /\ [][Next]_vars

(***************************************************************************)
(* Claims about a run (Spec)                                               *)
(***************************************************************************)
\* file f was updated in full: no preview, no read or write error
Patched(f) == f <= Len(fileResults) /\ ~fileResults[f].dry /\ ~fileResults[f].io

\* neither the locator nor the patcher sees a documentation block before c
NoDocBefore(text, c) ==
    /\ ~findPrecedingComment(text, c.startPos).found
    /\ ~findExistingDocString(text, LineStart(text, c.startPos)).found

\* the line of the declaration at index start follows docstring and a newline
DocRightBeforeLine(text, start, docstring) ==
    OccursAt(text, docstring \o <<"\n">>, LineStart(text, start) - Len(docstring) - 1)

\* the case of C1: at least two components of different names (Foo and Bar),
\* none documented, each with a docstring
C1_Case(f) ==
    /\ run = 1
    /\ Patched(f)
    /\ ~opts.updateExisting
    /\ Len(comps[f]) >= 2
    /\ \A j, k \in 1..Len(comps[f]) : j # k => comps[f][j].name # comps[f][k].name
    /\ \A k \in 1..Len(comps[f]) :
          /\ NoDocBefore(orig[f], comps[f][k])
          /\ HasDocString(docStrings, comps[f][k])

\* the patched text parses back to the same declarations in the same order,
\* each on a line that follows its own docstring
C1_Text(f) ==
    LET found == extractComponentsFromFile(disk[f], RelPath(f))
    IN  /\ Len(found) = Len(comps[f])
        /\ \A k \in 1..Len(comps[f]) :
              /\ found[k].name = comps[f][k].name
              /\ found[k].code = comps[f][k].code
              /\ DocRightBeforeLine(disk[f], found[k].startPos,
                                    docStrings[comps[f][k].uniqueId].docstring)

\* C1: in a file of N >= 2 undocumented components that all have a docstring,
\* one pass without updateExisting leaves every declaration in place and in
\* order, each right after its own docstring, and returns success = N,
\* skipped = 0, failed = 0, modified = true.
C1_AllComponentsDocumented ==
    \A f \in 1..Len(disk) :
        C1_Case(f) =>
            /\ fileResults[f].success = Len(comps[f])
            /\ fileResults[f].skipped = 0
            /\ fileResults[f].failed = 0
            /\ fileResults[f].modified
            /\ C1_Text(f)

NoIoError(returned) == \A f \in 1..Len(returned) : ~returned[f].io

\* C2: a second pass over the patched files, without updateExisting and with
\* the same docstrings, leaves every file byte-identical, skips every
\* component and reports modified = false.
C2_SecondPassChangesNothing ==
    (run = 2 /\ pc = "done" /\ NoIoError(first.fileResults) /\ NoIoError(fileResults)) =>
        /\ disk = first.disk
        /\ \A f \in 1..Len(disk) :
              /\ fileResults[f].success = 0
              /\ fileResults[f].failed = 0
              /\ fileResults[f].skipped = Len(comps[f])
              /\ ~fileResults[f].modified

\* text without its documentation blocks: every block from an open marker to
\* the next close marker is dropped, with the newline that follows it
RECURSIVE StripDocs(_)
StripDocs(text) ==
    LET open  == IndexOf(text, OpenMarker)
        close == CommentEnd(text, open)
        rest  == IF close < Len(text) /\ text[close + 1] = "\n" THEN close + 1 ELSE close
    IN  IF open = -1 THEN text
        ELSE IF close = -1 THEN text
        ELSE Substring(text, 0, open) \o StripDocs(SubstringFrom(text, rest))

\* C3: after a pass, everything that is not a documentation block (every
\* declaration, every other character) is byte-identical to the original and
\* in the same order.
C3_OnlyDocumentationDiffers ==
    \A f \in 1..Len(disk) :
        (run = 1 /\ Patched(f)) => StripDocs(disk[f]) = StripDocs(orig[f])

\* C4: the summary counts every component once: success + skipped + failed
\* is the number of components.
C4_SummaryCountsEveryComponent ==
    pc = "done" =>
        results.success + results.skipped + results.failed = Len(AllComponents)

\* C5: in a preview no file is written and no file is counted as modified.
C5_DryRunWritesNothing ==
    opts.isDryRun => (disk = orig /\ results.filesModified = 0)

\* a preview of two files came to its end, and a real run would have written:
\* some component has a docstring and no documentation block
C5_Witness ==
    /\ opts.isDryRun
    /\ pc = "done"
    /\ Len(disk) = 2
    /\ results.filesProcessed = 2
    /\ \E f \in 1..Len(disk) : \E k \in 1..Len(comps[f]) :
          /\ HasDocString(docStrings, comps[f][k])
          /\ NoDocBefore(orig[f], comps[f][k])

\* the text before the line of c ends, white space aside, with a documentation
\* block, and c starts its line or follows the export keyword
DocBlockBeforeLine(text, c) ==
    LET lineStart == LineStart(text, c.startPos)
        before    == Trim(Substring(text, 0, lineStart))
        open      == LastIndexOfFrom(before, PlainOpen, Len(before) - 4)
    IN  /\ Substring(text, lineStart, c.startPos) \in {<<>>, <<"e", " ">>}
        /\ EndsWith(before, CloseMarker)
        /\ open # -1
        /\ OccursAt(before, OpenMarker, open)

\* C6: with skipExisting, a component whose line follows a documentation
\* block gets a result marked skipped and no call of the model, and a file
\* whose components all are such is left as it was.
C6_DocumentedComponentsSkipped ==
    (run = 1 /\ opts.skipExisting /\ pc \in {"files", "loop", "done"}) =>
        \A f \in 1..Len(disk) :
            /\ \A k \in 1..Len(comps[f]) :
                  DocBlockBeforeLine(orig[f], comps[f][k]) =>
                      /\ docStrings[comps[f][k].uniqueId].skipped
                      /\ comps[f][k].uniqueId \notin oracleCalls
            /\ (\A k \in 1..Len(comps[f]) : DocBlockBeforeLine(orig[f], comps[f][k]))
                  => disk[f] = orig[f]

(***************************************************************************)
(* SpecSanitize: sanitizeDocString applied to every body of bounded length *)
(***************************************************************************)
MaxBodyLen == 8
BodyChars == {"/", "*", "a"}

Bodies == UNION {[1..n -> BodyChars] : n \in 0..MaxBodyLen}

SanInit ==
    /\ sanIn \in Bodies
    /\ sanOut = <<>>
    /\ sanPc = "in"
    /\ PipeIdle
    /\ RateIdle
    /\ IdIdle
    /\ LocIdle
    /\ CacheIdle
    /\ BatchIdle

Sanitize ==
    /\ sanPc = "in"
    /\ sanOut' = sanitizeDocString(sanIn)
    /\ sanPc' = "out"
    /\ UNCHANGED <<sanIn, pipeVars, rateVars, idVars, locVars, cacheVars, batchVars>>

SanNext == Sanitize

SpecSanitize == SanInit /\ [][SanNext]_vars

\* C7: every sanitized docstring starts with the open marker, ends with the
\* close marker, and its first close marker is the one at its very end.
C7_SanitizedWellFormed ==
    sanPc = "out" =>
        /\ StartsWith(sanOut, OpenMarker)
        /\ EndsWith(sanOut, CloseMarker)
        /\ IndexOf(sanOut, CloseMarker) = Len(sanOut) - 2

(***************************************************************************)
(* SpecRate: generateDocStrings over the clock                             *)
(***************************************************************************)
MaxComponents == 4
MaxBatchSize == 3
MaxRateLimit == 3
OracleLatency == 1000

RateInit ==
    /\ SanIdle
    /\ PipeIdle
    /\ IdIdle
    /\ LocIdle
    /\ CacheIdle
    /\ BatchIdle
    /\ rOpts \in [batchSize : 0..MaxBatchSize, rateLimit : 1..MaxRateLimit, client : BOOLEAN]
    /\ rTotal \in 1..MaxComponents
    /\ rCached \in SUBSET (1..rTotal)
    /\ rI = 0
    /\ rPc = "loop"
    /\ rNow = 0
    /\ rPending = {}
    /\ rStart = NoTimes
    /\ rEnd = NoTimes
    /\ rIssued = {}
    /\ rSleeps = <<>>

\* lines 95-102 and processBatch, line 18: every component of the batch starts
RateStartBatch ==
    /\ rPc = "loop"
    /\ rI < rTotal
    /\ LET batch == Batch(rI, rOpts, rTotal)
       IN  /\ rPending' = batch
           /\ rStart' = [c \in batch |-> rNow] @@ rStart
           /\ rIssued' = IF rOpts.client THEN rIssued \cup (batch \ rCached) ELSE rIssued
    /\ rPc' = "batch"
    /\ UNCHANGED <<sanVars, pipeVars, idVars, locVars, cacheVars, batchVars, rOpts, rTotal, rCached, rI, rNow, rEnd, rSleeps>>

\* processBatch, lines 19-57: one generation settles, at once or after the
\* model took its time
RateSettle ==
    /\ rPc = "batch"
    /\ \E c \in rPending :
          \E took \in (IF c \in rIssued THEN {0, OracleLatency} ELSE {0}) :
             /\ rNow' = rNow + took
             /\ rEnd' = (c :> rNow + took) @@ rEnd
             /\ rPending' = rPending \ {c}
    /\ UNCHANGED <<sanVars, pipeVars, idVars, locVars, cacheVars, batchVars, rOpts, rTotal, rCached, rI, rPc, rStart, rIssued,
                   rSleeps>>

\* lines 102-108: the batch is done and no delay follows
RateNextBatch ==
    /\ rPc = "batch"
    /\ rPending = {}
    /\ ~DelayFollows(rI, rOpts, rTotal)
    /\ rI' = rI + BatchSize(rOpts)
    /\ rPc' = IF rI + BatchSize(rOpts) < rTotal THEN "loop" ELSE "done"
    /\ UNCHANGED <<sanVars, pipeVars, idVars, locVars, cacheVars, batchVars, rOpts, rTotal, rCached, rNow, rPending, rStart, rEnd,
                   rIssued, rSleeps>>

\* lines 108-112: the batch is done and the delay is taken
RateSleep ==
    /\ rPc = "batch"
    /\ rPending = {}
    /\ DelayFollows(rI, rOpts, rTotal)
    /\ rNow' = rNow + DelayMs(rOpts)
    /\ rSleeps' = IF Len(rSleeps) < MaxComponents
                  THEN Append(rSleeps, [after |-> rI, from |-> rNow, to |-> rNow + DelayMs(rOpts)])
                  ELSE rSleeps
    /\ rI' = rI + BatchSize(rOpts)
    /\ rPc' = "loop"
    /\ UNCHANGED <<sanVars, pipeVars, idVars, locVars, cacheVars, batchVars, rOpts, rTotal, rCached, rPending, rStart, rEnd,
                   rIssued>>

RateNext ==
    \/ RateStartBatch
    \/ RateSettle
    \/ RateNextBatch
    \/ RateSleep

SpecRate == RateInit /\ [][RateNext]_vars

\* the requests issued in the minute that starts with the request of c
RequestsInMinuteFrom(c) ==
    {d \in rIssued : rStart[c] <= rStart[d] /\ rStart[d] < rStart[c] + Minute}

\* C8: no one-minute window holds more requests than options.rateLimit.
C8_RateLimitRespected ==
    \A c \in rIssued : Cardinality(RequestsInMinuteFrom(c)) <= rOpts.rateLimit

(***************************************************************************)
(* SpecIdentity: uniqueId as the key of the result map                     *)
(***************************************************************************)
MaxStart == 2

IdNames == {<<"A">>, <<"A", "_", "b">>}
IdPaths == {<<"c", ".", "j", "s">>,
            <<"b", "/", "c", ".", "j", "s">>,
            <<"b", "_", "c", ".", "j", "s">>,
            <<"b", "-", "c", ".", "j", "s">>}

\* the content of every file: two lines, long enough for every start position
IdContent == [k \in 1..(MaxStart + 1) |-> IF k = 2 THEN "\n" ELSE "x"]

IdDeclarations == [path : IdPaths, name : IdNames, start : 0..MaxStart]

\* the component the locator reports for a declaration
IdLocated(d) ==
    addComponent(IdContent, d.path, d.name, d.start, d.start + 1, "FunctionComponent")

IdInit ==
    /\ SanIdle
    /\ PipeIdle
    /\ RateIdle
    /\ LocIdle
    /\ CacheIdle
    /\ BatchIdle
    /\ \E d1, d2 \in IdDeclarations :
          /\ d1 # d2
          /\ (d1.path = d2.path => d1.start # d2.start)
          /\ idDecls = <<d1, d2>>
    /\ idFound = [k \in 1..Len(idDecls) |-> IdLocated(idDecls[k])]
    /\ idMap = NoTimes
    /\ idN = 1

\* processBatch, lines 63-70: results[result.id] = the docstring made for the component
IdStoreResult ==
    /\ idN >= 1
    /\ idN <= Len(idFound)
    /\ idMap' = (idFound[idN].uniqueId :> idDecls[idN]) @@ idMap
    /\ idN' = idN + 1
    /\ UNCHANGED <<sanVars, pipeVars, rateVars, locVars, cacheVars, batchVars, idDecls, idFound>>

\* the locator runs again on the unchanged source
IdLocateAgain ==
    /\ idN > Len(idFound)
    /\ idN <= Len(idFound) + 1
    /\ idFound' = [k \in 1..Len(idDecls) |-> IdLocated(idDecls[k])]
    /\ idN' = idN + 1
    /\ UNCHANGED <<sanVars, pipeVars, rateVars, locVars, cacheVars, batchVars, idDecls, idMap>>

IdNext ==
    \/ IdStoreResult
    \/ IdLocateAgain

SpecIdentity == IdInit /\ [][IdNext]_vars

\* C9: two distinct located components never share a uniqueId, so once every
\* result is stored the entry under a component's uniqueId is the one made for
\* that component; and locating again gives every component the uniqueId its
\* result was stored under.
C9_UniqueIdIdentifies ==
    idN > Len(idFound) =>
        /\ \A j, k \in 1..Len(idFound) : j # k => idFound[j].uniqueId # idFound[k].uniqueId
        /\ \A k \in 1..Len(idFound) :
              /\ idFound[k].uniqueId \in DOMAIN idMap
              /\ idMap[idFound[k].uniqueId] = idDecls[k]

(***************************************************************************)
(* SpecLocator: extractComponentsFromFile over the syntax tree of one file *)
(***************************************************************************)
MaxStatements == 2

InnerFunction == FunctionDeclaration(<<"I">>, <<>>)

ComponentDeclarators ==
    {VariableDeclarator(<<"A">>, "arrow", <<InnerFunction>>),
     VariableDeclarator(<<"B">>, "arrow", <<>>),
     VariableDeclarator(<<"S">>, "styled", <<>>),
     VariableDeclarator(<<"c">>, "arrow", <<>>)}

Statements ==
    {VariableDeclaration(<<d>>) : d \in ComponentDeclarators}
    \cup {VariableDeclaration(<<d, e>>) : d, e \in ComponentDeclarators}
    \cup {VariableDeclaration(<<VariableDeclarator(<<"M">>, "React.memo", <<>>)>>),
          VariableDeclaration(<<VariableDeclarator(<<"D">>, "make", <<>>)>>),
          VariableDeclaration(<<VariableDeclarator(<<"N">>, "literal", <<>>)>>)}
    \cup {FunctionDeclaration(<<"F">>, <<>>), FunctionDeclaration(<<"F">>, <<InnerFunction>>),
          FunctionDeclaration(<<"g">>, <<>>)}
    \cup {ClassDeclaration(<<"K">>, "Component"), ClassDeclaration(<<"K">>, "React.Component"),
          ClassDeclaration(<<"K">>, "Other"), ClassDeclaration(<<"L">>, ""),
          ClassDeclaration(<<"k">>, "Component")}

Programs == UNION {[1..n -> Statements] : n \in 1..MaxStatements}

LocInit ==
    /\ SanIdle
    /\ PipeIdle
    /\ RateIdle
    /\ IdIdle
    /\ CacheIdle
    /\ BatchIdle
    /\ lAst \in Programs
    /\ lText = SourceOfStatements(lAst)
    /\ lNodes = NodesOfStatements(lAst, 0)
    /\ lK = 1
    /\ lComponents = <<>>
    /\ lReturned = <<>>
    /\ lPc = "parse"

\* lines 148-155: the parser throws and the empty array is returned
LocParseFails ==
    /\ lPc = "parse"
    /\ ParseThrows(lAst)
    /\ lPc' = "returned"
    /\ UNCHANGED <<sanVars, pipeVars, rateVars, idVars, cacheVars, batchVars, lAst, lText, lNodes, lK, lComponents,
                   lReturned>>

\* lines 148-151: the file parses
LocParse ==
    /\ lPc = "parse"
    /\ ~ParseThrows(lAst)
    /\ lPc' = "traverse"
    /\ UNCHANGED <<sanVars, pipeVars, rateVars, idVars, cacheVars, batchVars, lAst, lText, lNodes, lK, lComponents,
                   lReturned>>

Visiting(type) == lPc = "traverse" /\ lK <= Len(lNodes) /\ lNodes[lK].type = type

\* lines 196-201
VisitFunctionDeclaration ==
    /\ Visiting("FunctionDeclaration")
    /\ LET node == lNodes[lK]
       IN  lComponents' =
              IF StartsUpper(node.name)
              THEN Append(lComponents,
                          addComponent(lText, RelativePath, node.name, node.start, node.end,
                                       "FunctionComponent"))
              ELSE lComponents
    /\ lK' = lK + 1
    /\ UNCHANGED <<sanVars, pipeVars, rateVars, idVars, cacheVars, batchVars, lAst, lText, lNodes, lReturned, lPc>>

\* lines 204-235: the span is the one of the enclosing VariableDeclaration
VisitVariableDeclarator ==
    /\ Visiting("VariableDeclarator")
    /\ LET node == lNodes[lK]
       IN  lComponents' =
              IF StartsUpper(node.name) /\ DeclaratorType(node.init) # ""
              THEN Append(lComponents,
                          addComponent(lText, RelativePath, node.name, node.declStart,
                                       node.declEnd, DeclaratorType(node.init)))
              ELSE lComponents
    /\ lK' = lK + 1
    /\ UNCHANGED <<sanVars, pipeVars, rateVars, idVars, cacheVars, batchVars, lAst, lText, lNodes, lReturned, lPc>>

\* lines 238-250
VisitClassDeclaration ==
    /\ Visiting("ClassDeclaration")
    /\ LET node == lNodes[lK]
       IN  lComponents' =
              IF ExtendsComponent(node.superClass)
              THEN Append(lComponents,
                          addComponent(lText, RelativePath, node.name, node.start, node.end,
                                       "ClassComponent"))
              ELSE lComponents
    /\ lK' = lK + 1
    /\ UNCHANGED <<sanVars, pipeVars, rateVars, idVars, cacheVars, batchVars, lAst, lText, lNodes, lReturned, lPc>>

\* lines 257-260: components.sort by startPos, ascending; return
LocReturn ==
    /\ lPc = "traverse"
    /\ lK > Len(lNodes)
    /\ lReturned' = SortByStart(lComponents, FALSE)
    /\ lPc' = "returned"
    /\ UNCHANGED <<sanVars, pipeVars, rateVars, idVars, cacheVars, batchVars, lAst, lText, lNodes, lK, lComponents>>

LocNext ==
    \/ LocParseFails
    \/ LocParse
    \/ VisitFunctionDeclaration
    \/ VisitVariableDeclarator
    \/ VisitClassDeclaration
    \/ LocReturn

SpecLocator == LocInit /\ [][LocNext]_vars

SortedByStart(cs) == \A j, k \in 1..Len(cs) : j < k => cs[j].startPos <= cs[k].startPos
Disjoint(a, b) == a.endPos <= b.startPos \/ b.endPos <= a.startPos
SameSpan(a, b) == a.startPos = b.startPos /\ a.endPos = b.endPos
Inside(a, b) == b.startPos <= a.startPos /\ a.endPos <= b.endPos /\ ~SameSpan(a, b)
FromDeclarator(a) ==
    a.type \in {"ArrowFunctionComponent", "StyledComponent", "HOCComponent"}

\* C10: the returned components are sorted by startPos, ascending, and two of
\* them overlap only when one lies inside the other (a component declared in
\* another) or when both come from declarators and have the same span (the
\* span of their variable statement).
C10_SortedAndNestedOrDisjoint ==
    lPc = "returned" =>
        /\ SortedByStart(lReturned)
        /\ \A j, k \in 1..Len(lReturned) :
              j # k =>
                 \/ Disjoint(lReturned[j], lReturned[k])
                 \/ Inside(lReturned[j], lReturned[k])
                 \/ Inside(lReturned[k], lReturned[j])
                 \/ /\ SameSpan(lReturned[j], lReturned[k])
                    /\ FromDeclarator(lReturned[j])
                    /\ FromDeclarator(lReturned[k])

\* a file was returned whose components were pushed out of order, with one
\* component inside another and two with the same span
C10_Witness ==
    /\ lPc = "returned"
    /\ lComponents # lReturned
    /\ \E j, k \in 1..Len(lReturned) : Inside(lReturned[j], lReturned[k])
    /\ \E j, k \in 1..Len(lReturned) : j # k /\ SameSpan(lReturned[j], lReturned[k])

\* C10 as the specification states it: sorted, and the spans pairwise disjoint
C10_SortedAndDisjoint ==
    lPc = "returned" =>
        /\ SortedByStart(lReturned)
        /\ \A j, k \in 1..Len(lReturned) :
              j # k => Disjoint(lReturned[j], lReturned[k])

\* C11: every component the locator returns has a name that begins with an
\* upper-case letter.
C11_ReportedNamesUpperCase ==
    lPc = "returned" => \A k \in 1..Len(lReturned) : StartsUpper(lReturned[k].name)

(***************************************************************************)
(* SpecCache: saveDocToCache and loadDocFromCache over the cache directory *)
(***************************************************************************)
MaxTextLen == 2

Hashes == {<<"h1">>, <<"h2">>}
TextChars == {"n", "\"", "\\", "\n"}
Texts == UNION {[1..n -> TextChars] : n \in 1..MaxTextLen}
\* new Date().toISOString(): nothing reads the timestamp back, one value stands
\* for all
Timestamps == {RunTimestamp}

CacheInit ==
    /\ SanIdle
    /\ PipeIdle
    /\ RateIdle
    /\ IdIdle
    /\ LocIdle
    /\ BatchIdle
    /\ cFiles = NoTimes
    /\ cSaved = [h \in Hashes |-> [state |-> "never", text |-> <<>>]]
    /\ cLoad = [hash |-> <<>>, value |-> <<>>, state |-> "none"]

\* saveDocToCache, lines 100-108: writeFile resolves
CacheSave ==
    /\ cLoad.state # "idle"
    /\ \E h \in Hashes, text \in Texts, timestamp \in Timestamps :
          /\ cFiles' = saveDocToCache(cFiles, h, text, timestamp)
          /\ cSaved' = [cSaved EXCEPT ![h] = [state |-> "saved", text |-> text]]
    /\ cLoad' = [hash |-> <<>>, value |-> <<>>, state |-> "none"]
    /\ UNCHANGED <<sanVars, pipeVars, rateVars, idVars, locVars, batchVars>>

\* saveDocToCache, lines 108-110: writeFile rejects; the file is as it was, or
\* empty, or holds the beginning of the new text
CacheSaveFails ==
    /\ cLoad.state # "idle"
    /\ \E h \in Hashes :
          /\ \/ cFiles' = cFiles
             \/ cFiles' = (getCacheFilePath(h) :> <<>>) @@ cFiles
             \/ cFiles' = (getCacheFilePath(h) :> JsonHead) @@ cFiles
          /\ cSaved' = [cSaved EXCEPT ![h] = [state |-> "failed", text |-> <<>>]]
    /\ cLoad' = [hash |-> <<>>, value |-> <<>>, state |-> "none"]
    /\ UNCHANGED <<sanVars, pipeVars, rateVars, idVars, locVars, batchVars>>

\* loadDocFromCache, lines 81-95
CacheLoad ==
    /\ cLoad.state # "idle"
    /\ \E h \in Hashes :
          cLoad' = [hash |-> h, value |-> loadDocFromCache(cFiles, h), state |-> "loaded"]
    /\ UNCHANGED <<sanVars, pipeVars, rateVars, idVars, locVars, batchVars, cFiles, cSaved>>

\* loadDocFromCache, lines 85 and 90-94: readFile rejects
CacheLoadFails ==
    /\ cLoad.state # "idle"
    /\ \E h \in Hashes :
          /\ getCacheFilePath(h) \in DOMAIN cFiles
          /\ cLoad' = [hash |-> h, value |-> Null, state |-> "read error"]
    /\ UNCHANGED <<sanVars, pipeVars, rateVars, idVars, locVars, batchVars, cFiles, cSaved>>

CacheNext ==
    \/ CacheSave
    \/ CacheSaveFails
    \/ CacheLoad
    \/ CacheLoadFails

SpecCache == CacheInit /\ [][CacheNext]_vars

\* C12: a load without read error of a hash whose last save completed returns
\* exactly the docstring saved, whatever was saved under other hashes since;
\* a load of a hash never saved returns null.
C12_CacheRoundTrip ==
    cLoad.state = "loaded" =>
        /\ cSaved[cLoad.hash].state = "saved" => cLoad.value = cSaved[cLoad.hash].text
        /\ cSaved[cLoad.hash].state = "never" => cLoad.value = Null

\* a docstring with a quote or a backslash or a newline was saved, another hash
\* was saved after it, and the docstring was loaded
C12_Witness ==
    /\ cLoad.state = "loaded"
    /\ cSaved[cLoad.hash].state = "saved"
    /\ \E k \in 1..Len(cLoad.value) : cLoad.value[k] \in {"\"", "\\", "\n"}
    /\ \E h \in Hashes : h # cLoad.hash /\ cSaved[h].state # "never"

\* C13: when the pass comes to a component whose original start offset is s,
\* the first s characters of the buffer are those of the original text, and
\* the position found in the buffer is the position found in the original.
C13_PrefixUntouched ==
    (pc = "loop" /\ si <= Len(sorted)) =>
        LET component == sorted[si]
        IN  /\ Substring(content, 0, component.startPos)
                  = Substring(originalContent, 0, component.startPos)
            /\ findComponentPosition(content, component)
                  = findComponentPosition(originalContent, component)

\* the docstring of component c is right before the line of the one
\* declaration of its name in text
PlacedBeforeOwn(text, c) ==
    LET found == extractComponentsFromFile(text, c.file)
    IN  \E k \in 1..Len(found) :
           /\ found[k].name = c.name
           /\ DocRightBeforeLine(text, found[k].startPos, docStrings[c.uniqueId].docstring)

\* C14: a step of the pass that counts a component as success leaves its
\* docstring right before its own declaration, and leaves in place the
\* docstrings the pass wrote for other components.
C14_NoMisPatch ==
    [][(pc = "loop" /\ si <= Len(sorted) /\ cnt'.success = cnt.success + 1) =>
          /\ PlacedBeforeOwn(content', sorted[si])
          /\ \A j \in 1..(si - 1) :
                (/\ HasDocString(docStrings, sorted[j])
                 /\ IndexOf(content, docStrings[sorted[j].uniqueId].docstring) # -1)
                => IndexOf(content', docStrings[sorted[j].uniqueId].docstring) # -1]_vars

\* the block that ends before index position of text, in indices of text: from
\* its open marker to the end of its close marker
BlockBefore(text, position) ==
    LET close == LastIndexOf(Substring(text, 0, position), CloseMarker)
    IN  [start |-> LastIndexOfFrom(Substring(text, 0, position), OpenMarker, close),
         end   |-> close + 2]

\* the pass is about to replace the block found before sorted[si]
Replacing ==
    /\ pc = "loop"
    /\ si <= Len(sorted)
    /\ opts.updateExisting
    /\ HasDocString(docStrings, sorted[si])
    /\ findComponentPosition(content, sorted[si]).found
    /\ findExistingDocString(content, findComponentPosition(content, sorted[si]).start).found

\* C15: a replacement puts the new docstring in the place of the characters
\* of the block, from the first of its open marker to the last of its close
\* marker, and changes no character before or after them.
C15_ReplacesExactlyTheBlock ==
    [][Replacing =>
          LET block == BlockBefore(content, findComponentPosition(content, sorted[si]).start)
          IN  content' = Substring(content, 0, block.start)
                            \o docStrings[sorted[si].uniqueId].docstring
                            \o SubstringFrom(content, block.end)]_vars

\* a span of text that is one comment block: its only close marker is its end
SingleBlock(span) == IndexOf(span, CloseMarker) = Len(span) - 2

\* C16: the documentation span that the locator reports for a component, and
\* the one the patcher finds before a component, is one single comment block:
\* it holds no close marker but its own.
C16_ExistingSpanIsOneBlock ==
    /\ \A f \in 1..Len(comps) : \A k \in 1..Len(comps[f]) :
          comps[f][k].existingComment # Null => SingleBlock(comps[f][k].existingComment)
    /\ (pc = "loop" /\ si <= Len(sorted) /\ findComponentPosition(content, sorted[si]).found) =>
          LET position    == findComponentPosition(content, sorted[si]).start
              before      == Trim(Substring(content, 0, position))
              existingDoc == findExistingDocString(content, position)
          IN  existingDoc.found =>
                 SingleBlock(Substring(before, existingDoc.start, existingDoc.end))

\* the patcher finds a block before the component it looks at in text
ExistingFound(text, component) ==
    /\ findComponentPosition(text, component).found
    /\ findExistingDocString(text, findComponentPosition(text, component).start).found

\* the component is one the pass skips: no result, no docstring, a result
\* marked skipped, or an existing block and no updateExisting
SkipDisposition(text, component) ==
    \/ ~HasDocString(docStrings, component)
    \/ (ExistingFound(text, component) /\ ~opts.updateExisting)

\* C17: handling a component that is skipped changes no character of the
\* buffer, leaves modified as it is and adds one to skipped only, so the
\* components after it meet the buffer they would meet without it.
C17_SkipLeavesBufferUntouched ==
    [][(pc = "loop" /\ si <= Len(sorted) /\ SkipDisposition(content, sorted[si])) =>
          /\ content' = content
          /\ cnt' = [cnt EXCEPT !.skipped = @ + 1]]_vars

\* a component with a docstring was skipped for its existing block, and
\* another component of the file is still to be handled
C17_Witness ==
    /\ pc = "loop"
    /\ si > 1
    /\ si <= Len(sorted)
    /\ ~opts.updateExisting
    /\ HasDocString(docStrings, sorted[si - 1])
    /\ ExistingFound(content, sorted[si - 1])
    /\ content = originalContent
    /\ cnt = [ZeroCounts EXCEPT !.skipped = si - 1]

\* the text of file f when the pass began
BeforePass(f) == IF run = 1 THEN orig[f] ELSE first.disk[f]

BatchLayouts == {<<"BAR">>, <<"FOO">>, <<"DOC", "BAR">>}

BatchPaths == {<<<<"a", ".", "j", "s">>, <<"b", ".", "j", "s">>>>,
               <<<<"b", "-", "c", ".", "j", "s">>, <<"b", "/", "c", ".", "j", "s">>>>}

\* a project of two small files, or one file with two components of the same text
BatchProjects ==
    {[paths |-> ps, texts |-> <<LayoutText(l[1]), LayoutText(l[2])>>] :
        ps \in BatchPaths, l \in BatchLayouts \X BatchLayouts}
    \cup {[paths |-> <<RelPath(1)>>, texts |-> <<LayoutText(<<"PAIR">>)>>]}

\* allComponents.slice(i, i + batchSize), for a batch size that takes them all
BatchOf(project) ==
    Flatten([f \in 1..Len(project.texts) |->
                extractComponentsFromFile(project.texts[f], project.paths[f])])

BatchOptions == [skipExisting : BOOLEAN, client : BOOLEAN]

\* a docstring an earlier run has cached
CachedDocstring == <<"/", "*", "*", "c", "*", "/">>

BatchHashes(batch) == {calculateComponentHash(batch[i].code) : i \in 1..Len(batch)}

\* the cache directory when the batch begins: for each hash no file, the file
\* an earlier save wrote, or a file an earlier failed save left empty
BatchStore(saved, empty) ==
    [path \in {getCacheFilePath(h) : h \in saved \cup empty} |->
        IF \E h \in saved : getCacheFilePath(h) = path
        THEN JsonStringify(CachedDocstring, RunTimestamp)
        ELSE <<>>]

BatchStores(batch) ==
    {BatchStore(saved, empty) :
        saved \in SUBSET BatchHashes(batch), empty \in SUBSET BatchHashes(batch)}

NoResult == [id |-> <<>>, docstring |-> Null, skipped |-> FALSE]

BatchInit ==
    /\ SanIdle
    /\ PipeIdle
    /\ RateIdle
    /\ IdIdle
    /\ LocIdle
    /\ CacheIdle
    /\ \E project \in BatchProjects, options \in BatchOptions :
          \E store \in BatchStores(BatchOf(project)) :
             /\ bIn = [batch |-> BatchOf(project), options |-> options, store |-> store]
             /\ bProc = [i \in 1..Len(BatchOf(project)) |->
                            [pc |-> "start", docString |-> Null, result |-> NoResult]]
             /\ bStore = store
    /\ bLog = [calls |-> <<>>, writes |-> <<>>, failed |-> {}]
    /\ bOut = [state |-> "running", results |-> NoTimes]

BatchBasic(component) ==
    generateBasicDocString(component.name, component.file, component.location,
                           component.type)

\* lines 51-53: the callback returns the sanitized docstring
Settled(i, docString) ==
    [bProc EXCEPT ![i] = [pc |-> "done", docString |-> docString,
                          result |-> [id |-> bIn.batch[i].uniqueId,
                                      docstring |-> sanitizeDocString(docString),
                                      skipped |-> FALSE]]]

\* openai-utils.js, line 171: chat.completions.create is called
Asked(i) ==
    /\ bProc' = [bProc EXCEPT ![i].pc = "asked"]
    /\ bLog' = [bLog EXCEPT !.calls = Append(@, i)]

\* batch.map calls the callback of component i: those before it have reached
\* their first await or returned
Starts(i) ==
    /\ bOut.state = "running"
    /\ bProc[i].pc = "start"
    /\ \A j \in 1..(i - 1) : bProc[j].pc # "start"

\* a callback continues after an await: batch.map has called every callback
Resumes ==
    /\ bOut.state = "running"
    /\ \A j \in 1..Len(bProc) : bProc[j].pc # "start"

\* processBatch, lines 21-24
BatchSkips ==
    \E i \in 1..Len(bProc) :
        /\ Starts(i)
        /\ SkipsExisting(bIn.options, bIn.batch[i])
        /\ bProc' = [bProc EXCEPT ![i] = [pc |-> "done", docString |-> Null,
                                          result |-> [id |-> bIn.batch[i].uniqueId,
                                                      docstring |-> Null,
                                                      skipped |-> TRUE]]]
        /\ UNCHANGED <<sanVars, pipeVars, rateVars, idVars, locVars, cacheVars, bIn, bStore, bLog, bOut>>

\* processBatch, lines 46-53: no client
BatchUsesBasic ==
    \E i \in 1..Len(bProc) :
        /\ Starts(i)
        /\ ~SkipsExisting(bIn.options, bIn.batch[i])
        /\ ~UsesOpenAI(bIn.options, bIn.batch[i])
        /\ bProc' = Settled(i, BatchBasic(bIn.batch[i]))
        /\ UNCHANGED <<sanVars, pipeVars, rateVars, idVars, locVars, cacheVars, bIn, bStore, bLog, bOut>>

\* loadDocFromCache, lines 83-85: existsSync finds the file, readFile is awaited
BatchOpensCache ==
    \E i \in 1..Len(bProc) :
        /\ Starts(i)
        /\ ~SkipsExisting(bIn.options, bIn.batch[i])
        /\ UsesOpenAI(bIn.options, bIn.batch[i])
        /\ getCacheFilePath(calculateComponentHash(bIn.batch[i].code)) \in DOMAIN bStore
        /\ bProc' = [bProc EXCEPT ![i].pc = "reading"]
        /\ UNCHANGED <<sanVars, pipeVars, rateVars, idVars, locVars, cacheVars, bIn, bStore, bLog, bOut>>

\* loadDocFromCache, lines 84 and 92: existsSync finds no file; lines 141-171
BatchMisses ==
    \E i \in 1..Len(bProc) :
        /\ Starts(i)
        /\ ~SkipsExisting(bIn.options, bIn.batch[i])
        /\ UsesOpenAI(bIn.options, bIn.batch[i])
        /\ getCacheFilePath(calculateComponentHash(bIn.batch[i].code)) \notin DOMAIN bStore
        /\ Asked(i)
        /\ UNCHANGED <<sanVars, pipeVars, rateVars, idVars, locVars, cacheVars, bIn, bStore, bOut>>

\* loadDocFromCache, lines 85-87, and lines 141-145: the file is read; the
\* cached docstring is returned, or the model is asked
BatchReads ==
    \E i \in 1..Len(bProc) :
        /\ Resumes
        /\ bProc[i].pc = "reading"
        /\ LET cachedDoc == loadDocFromCache(bStore, calculateComponentHash(bIn.batch[i].code))
           IN  IF cachedDoc # Null
               THEN bProc' = Settled(i, cachedDoc) /\ bLog' = bLog
               ELSE Asked(i)
        /\ UNCHANGED <<sanVars, pipeVars, rateVars, idVars, locVars, cacheVars, bIn, bStore, bOut>>

\* loadDocFromCache, lines 85 and 89-92: readFile rejects
BatchReadFails ==
    \E i \in 1..Len(bProc) :
        /\ Resumes
        /\ bProc[i].pc = "reading"
        /\ Asked(i)
        /\ UNCHANGED <<sanVars, pipeVars, rateVars, idVars, locVars, cacheVars, bIn, bStore, bOut>>

\* lines 171-195: the model answers; lines 198 and 107: writeFile is awaited
BatchAnswers ==
    \E i \in 1..Len(bProc) :
        /\ Resumes
        /\ bProc[i].pc = "asked"
        /\ \E answer \in OracleAnswers(bIn.batch[i], Digits[i + 1]) :
              bProc' = [bProc EXCEPT ![i].pc = "saving", ![i].docString = WrapResponse(answer)]
        /\ UNCHANGED <<sanVars, pipeVars, rateVars, idVars, locVars, cacheVars, bIn, bStore, bLog, bOut>>

\* lines 202-205 and processBatch, lines 41-45: the call fails, the fallback
BatchOracleFails ==
    \E i \in 1..Len(bProc) :
        /\ Resumes
        /\ bProc[i].pc = "asked"
        /\ bProc' = Settled(i, BatchBasic(bIn.batch[i]))
        /\ bLog' = [bLog EXCEPT !.failed = @ \cup {i}]
        /\ UNCHANGED <<sanVars, pipeVars, rateVars, idVars, locVars, cacheVars, bIn, bStore, bOut>>

\* saveDocToCache, line 107: writeFile resolves; lines 200 and 51-53
BatchSaves ==
    \E i \in 1..Len(bProc) :
        /\ Resumes
        /\ bProc[i].pc = "saving"
        /\ bStore' = saveDocToCache(bStore, calculateComponentHash(bIn.batch[i].code),
                                    bProc[i].docString, RunTimestamp)
        /\ bLog' = [bLog EXCEPT !.writes =
                        Append(@, [hash |-> calculateComponentHash(bIn.batch[i].code), by |-> i])]
        /\ bProc' = Settled(i, bProc[i].docString)
        /\ UNCHANGED <<sanVars, pipeVars, rateVars, idVars, locVars, cacheVars, bIn, bOut>>

\* saveDocToCache, lines 108-110: writeFile rejects; the file is as it was, or
\* empty; the docstring is returned all the same
BatchSaveFails ==
    \E i \in 1..Len(bProc) :
        /\ Resumes
        /\ bProc[i].pc = "saving"
        /\ \/ bStore' = bStore
           \/ bStore' = (getCacheFilePath(calculateComponentHash(bIn.batch[i].code)) :> <<>>)
                        @@ bStore
        /\ bProc' = Settled(i, bProc[i].docString)
        /\ UNCHANGED <<sanVars, pipeVars, rateVars, idVars, locVars, cacheVars, bIn, bLog, bOut>>

\* processBatch, lines 64-70: the results object, filled in batch order
RECURSIVE BatchResults(_)
BatchResults(values) ==
    IF values = <<>>
    THEN NoTimes
    ELSE LET last == values[Len(values)]
         IN  (last.id :> ResultEntry(last.docstring, last.skipped))
             @@ BatchResults(SubSeq(values, 1, Len(values) - 1))

\* processBatch, lines 61-72: every promise has resolved
BatchReturns ==
    /\ bOut.state = "running"
    /\ \A i \in 1..Len(bProc) : bProc[i].pc = "done"
    /\ bOut' = [state |-> "returned",
                results |-> BatchResults([i \in 1..Len(bProc) |-> bProc[i].result])]
    /\ UNCHANGED <<sanVars, pipeVars, rateVars, idVars, locVars, cacheVars, bIn, bProc, bStore, bLog>>

BatchNext ==
    \/ BatchSkips
    \/ BatchUsesBasic
    \/ BatchOpensCache
    \/ BatchMisses
    \/ BatchReads
    \/ BatchReadFails
    \/ BatchAnswers
    \/ BatchOracleFails
    \/ BatchSaves
    \/ BatchSaveFails
    \/ BatchReturns

SpecBatch == BatchInit /\ [][BatchNext]_vars

SameHash(i, j) ==
    calculateComponentHash(bIn.batch[i].code) = calculateComponentHash(bIn.batch[j].code)

Called(i) == \E k \in 1..Len(bLog.calls) : bLog.calls[k] = i

\* C19: a cache file that held an entry when the batch began is never written,
\* no cache file is written twice in a batch, and of two components of the
\* batch with the same source text at most one has the model called.
C19_CacheWriteOnce ==
    /\ \A k \in 1..Len(bLog.writes) : loadDocFromCache(bIn.store, bLog.writes[k].hash) = Null
    /\ \A j, k \in 1..Len(bLog.writes) : j # k => bLog.writes[j].hash # bLog.writes[k].hash
    /\ \A i, j \in 1..Len(bProc) : (i # j /\ SameHash(i, j)) => ~(Called(i) /\ Called(j))

\* the entry the callback of component i returned
OwnEntry(i) == ResultEntry(bProc[i].result.docstring, bProc[i].result.skipped)

FallbackEntry(i) == ResultEntry(sanitizeDocString(BatchBasic(bIn.batch[i])), FALSE)

\* C20: when processBatch returns after a call has failed, the results hold an entry under the
\* uniqueId of every component; the entry of a component whose call failed is
\* the sanitized fallback docstring, and the entry of every other component is
\* the one its own generation produced.
C20_FailureIsolation ==
    (bOut.state = "returned" /\ bLog.failed # {}) =>
        \A i \in 1..Len(bProc) :
            /\ bIn.batch[i].uniqueId \in DOMAIN bOut.results
            /\ i \in bLog.failed => bOut.results[bIn.batch[i].uniqueId] = FallbackEntry(i)
            /\ i \notin bLog.failed => bOut.results[bIn.batch[i].uniqueId] = OwnEntry(i)

\* the components dispatched together with c
DispatchedWith(c) == {d \in DOMAIN rStart : rStart[d] = rStart[c]}

\* C21: with a client, the components dispatched at one time are at most
\* batchSize; a component dispatched later than another starts only when that
\* one has settled and (60000 / rateLimit) * batchSize milliseconds have passed
\* since; a delay is taken only when components remain, and the function
\* returns when the last generation settles.
C21_BatchOrderAndDelay ==
    rOpts.client =>
        /\ \A c \in DOMAIN rStart : Cardinality(DispatchedWith(c)) <= BatchSize(rOpts)
        /\ \A c, d \in DOMAIN rStart :
              rStart[c] < rStart[d] =>
                  /\ c \in DOMAIN rEnd
                  /\ rStart[d] >= rEnd[c] + (Minute \div rOpts.rateLimit) * BatchSize(rOpts)
        /\ \A k \in 1..Len(rSleeps) :
              /\ rSleeps[k].after + BatchSize(rOpts) < rTotal
              /\ rSleeps[k].to - rSleeps[k].from
                     = (Minute \div rOpts.rateLimit) * BatchSize(rOpts)
        /\ rPc = "done" => \E c \in DOMAIN rEnd : rEnd[c] = rNow

\* a run with a client returned after two batches, the last one smaller, with
\* a generation that took its time and one delay, after the first batch
C21_Witness ==
    /\ rPc = "done"
    /\ rOpts.client
    /\ BatchSize(rOpts) = 2
    /\ rTotal = 3
    /\ Len(rSleeps) = 1
    /\ \E c \in DOMAIN rEnd : rEnd[c] > rStart[c]
    /\ \E c, d \in DOMAIN rStart : rStart[d] > rStart[c]

\* SpecRate with the steps of the loop taken whenever they can be: the event
\* loop runs the continuation of a settled promise or of an expired timer, and
\* every generation settles
SpecRateFair == RateInit /\ [][RateNext]_vars /\ WF_vars(RateNext)

\* C22: generateDocStrings eventually returns, with every component generated.
C22_Terminates == <>(rPc = "done" /\ DOMAIN rEnd = 1..rTotal)

====
